---- MODULE Spec2Model ----
(***************************************************************************)
(* String analyzer service (core/utils.py, core/views.py, core/urls.py,    *)
(* core/serializers.py, core/models.py).                                   *)
(*                                                                         *)
(* A Python str is a sequence of one-character strings: "ab" is            *)
(* <<"a", "b">>.  A Python dict is a function whose domain is its key set. *)
(***************************************************************************)
EXTENDS Integers, Sequences, FiniteSets, TLC

VARIABLES
    store,      \* table analyzed_strings: the rows, in insertion order
    clock,      \* the source of created_at (auto_now_add)
    resp,       \* the last request served and its response
    inflight,   \* concurrent POST /strings requests: client -> progress
    arg,        \* argument of a pure function under check
    result      \* its result

vars == <<store, clock, resp, inflight, arg, result>>

None == "None"

\* no request is being answered
NoResponse == [status |-> 0]

\* a pure function under check: not yet applied, or applied with this outcome
NotRun == [ran |-> FALSE]
Ran(out) == [ran |-> TRUE, out |-> out]

\* ------------------------------------------------------------------ bounds

MaxLen == 4         \* longest string handed to analyze_string alone
MaxPhrases == 2     \* phrases per natural-language query
MaxCreates == 3     \* rows ever inserted in one run
NumClients == 2     \* concurrent POST /strings requests
MaxParams == 2      \* parameters per GET /strings request

\* -------------------------------------------------------------- characters

UpperCase == <<"A", "B", "C", "D", "E", "F", "G", "H", "I", "J", "K", "L", "M",
               "N", "O", "P", "Q", "R", "S", "T", "U", "V", "W", "X", "Y", "Z">>
LowerCase == <<"a", "b", "c", "d", "e", "f", "g", "h", "i", "j", "k", "l", "m",
               "n", "o", "p", "q", "r", "s", "t", "u", "v", "w", "x", "y", "z">>
Digits == <<"0", "1", "2", "3", "4", "5", "6", "7", "8", "9">>

Range(s) == {s[i] : i \in DOMAIN s}

IndexOf(seq, c) == CHOOSE i \in DOMAIN seq : seq[i] = c

IsUpper(c) == c \in Range(UpperCase)
IsLowerLetter(c) == c \in Range(LowerCase)
IsDigit(c) == c \in Range(Digits)
\* str.isspace for the characters used here
IsSpace(c) == c \in {" ", "\t", "\n"}

\* str.lower, one character
LowerChar(c) == IF IsUpper(c) THEN LowerCase[IndexOf(UpperCase, c)] ELSE c
\* str.lower
Lower(s) == [i \in DOMAIN s |-> LowerChar(s[i])]

\* s[::-1]
Reverse(s) == [i \in DOMAIN s |-> s[Len(s) + 1 - i]]

\* the code point of a character (the byte of its UTF-8 encoding, ASCII)
CodePoint(c) ==
    CASE IsDigit(c) -> 47 + IndexOf(Digits, c)
      [] IsUpper(c) -> 64 + IndexOf(UpperCase, c)
      [] IsLowerLetter(c) -> 96 + IndexOf(LowerCase, c)
      [] c = " " -> 32
      [] c = "\t" -> 9
      [] c = "\n" -> 10
      [] c = "-" -> 45
      [] c = "/" -> 47
      [] OTHER -> 63

\* str.strip(): leading and trailing whitespace removed
RECURSIVE LStrip(_)
LStrip(s) == IF s # <<>> /\ IsSpace(Head(s)) THEN LStrip(Tail(s)) ELSE s
RECURSIVE RStrip(_)
RStrip(s) ==
    IF s # <<>> /\ IsSpace(s[Len(s)]) THEN RStrip(SubSeq(s, 1, Len(s) - 1)) ELSE s
Strip(s) == RStrip(LStrip(s))

\* str.split(): the maximal runs of non-whitespace characters, in order
RECURSIVE SplitFrom(_, _, _)
SplitFrom(s, i, cur) ==
    IF i > Len(s) THEN (IF cur = <<>> THEN <<>> ELSE <<cur>>)
    ELSE IF IsSpace(s[i])
         THEN (IF cur = <<>> THEN <<>> ELSE <<cur>>) \o SplitFrom(s, i + 1, <<>>)
         ELSE SplitFrom(s, i + 1, Append(cur, s[i]))
Split(s) == SplitFrom(s, 1, <<>>)

\* ---------------------------------------------------------------- analyzer

\* hashlib.sha256(value.encode('utf-8')).hexdigest(): the digest is taken as
\* collision-free, a tagged copy of the encoded bytes
calculate_sha256(value) ==
    [algorithm |-> "sha256", of |-> [i \in DOMAIN value |-> CodePoint(value[i])]]

\* a comparison that keeps the case: what C10's palindrome clause excludes
check_palindrome_CaseKept(value) == value = Reverse(value)

check_palindrome(value) ==
    LET cleaned == Lower(value) IN cleaned = Reverse(cleaned)

count_unique_characters(value) == Cardinality(Range(value))

count_words(value) == Len(Split(value))

\* dict(Counter(value))
calculate_character_frequency(value) ==
    [c \in Range(value) |-> Cardinality({i \in DOMAIN value : value[i] = c})]

analyze_string(value) ==
    [value |-> value,
     sha256_hash |-> calculate_sha256(value),
     length |-> Len(value),
     is_palindrome |-> check_palindrome(value),
     unique_characters |-> count_unique_characters(value),
     word_count |-> count_words(value),
     character_frequency_map |-> calculate_character_frequency(value)]

\* ------------------------------------------------------- parser literals

\* 'palindrome'
K_palindrome ==
    <<"p", "a", "l", "i", "n", "d", "r", "o", "m", "e">>
\* 'palindromic'
K_palindromic ==
    <<"p", "a", "l", "i", "n", "d", "r", "o", "m", "i", "c">>
\* 'reads the same'
K_reads_the_same ==
    <<"r", "e", "a", "d", "s", " ", "t", "h", "e", " ", "s", "a", "m", "e">>
\* 'single word'
K_single_word ==
    <<"s", "i", "n", "g", "l", "e", " ", "w", "o", "r", "d">>
\* 'one word'
K_one_word ==
    <<"o", "n", "e", " ", "w", "o", "r", "d">>
\* 'two word'
K_two_word ==
    <<"t", "w", "o", " ", "w", "o", "r", "d">>
\* 'three word'
K_three_word ==
    <<"t", "h", "r", "e", "e", " ", "w", "o", "r", "d">>
\* 'with '
K_with_sp ==
    <<"w", "i", "t", "h", " ">>
\* ' word'
K_sp_word ==
    <<" ", "w", "o", "r", "d">>
\* 'longer than '
K_longer_than_sp ==
    <<"l", "o", "n", "g", "e", "r", " ", "t", "h", "a", "n", " ">>
\* 'shorter than '
K_shorter_than_sp ==
    <<"s", "h", "o", "r", "t", "e", "r", " ", "t", "h", "a", "n", " ">>
\* 'at least '
K_at_least_sp ==
    <<"a", "t", " ", "l", "e", "a", "s", "t", " ">>
\* 'at most '
K_at_most_sp ==
    <<"a", "t", " ", "m", "o", "s", "t", " ">>
\* ' character'
K_sp_character ==
    <<" ", "c", "h", "a", "r", "a", "c", "t", "e", "r">>
\* 'contain'
K_contain ==
    <<"c", "o", "n", "t", "a", "i", "n">>
\* 'ing'
K_ing ==
    <<"i", "n", "g">>
\* 's'
K_s ==
    <<"s">>
\* ' the letter'
K_sp_the_letter ==
    <<" ", "t", "h", "e", " ", "l", "e", "t", "t", "e", "r">>
\* 'with'
K_with ==
    <<"w", "i", "t", "h">>
\* 'that have'
K_that_have ==
    <<"t", "h", "a", "t", " ", "h", "a", "v", "e">>
\* 'first vowel'
K_first_vowel ==
    <<"f", "i", "r", "s", "t", " ", "v", "o", "w", "e", "l">>
\* 'conflicting'
K_conflicting ==
    <<"c", "o", "n", "f", "l", "i", "c", "t", "i", "n", "g">>
\* 'Query cannot be empty'
MsgEmpty ==
    <<"Q", "u", "e", "r", "y", " ", "c", "a", "n", "n", "o", "t", " ", "b",
      "e", " ", "e", "m", "p", "t", "y">>
\* 'Conflicting length filters: min_length > max_length'
MsgConflict ==
    <<"C", "o", "n", "f", "l", "i", "c", "t", "i", "n", "g", " ", "l", "e",
      "n", "g", "t", "h", " ", "f", "i", "l", "t", "e", "r", "s", ":", " ",
      "m", "i", "n", "_", "l", "e", "n", "g", "t", "h", " ", ">", " ", "m",
      "a", "x", "_", "l", "e", "n", "g", "t", "h">>
\* 'Unable to extract any filters from the query'
MsgNoFilters ==
    <<"U", "n", "a", "b", "l", "e", " ", "t", "o", " ", "e", "x", "t", "r",
      "a", "c", "t", " ", "a", "n", "y", " ", "f", "i", "l", "t", "e", "r",
      "s", " ", "f", "r", "o", "m", " ", "t", "h", "e", " ", "q", "u", "e",
      "r", "y">>

\* ------------------------------------------------------------ regex pieces

Min(S) == CHOOSE x \in S : \A y \in S : x <= y

\* the literal lit occurs in q at position i
StartsAt(q, i, lit) ==
    /\ i >= 1
    /\ i + Len(lit) - 1 <= Len(q)
    /\ \A k \in 1..Len(lit) : q[i + k - 1] = lit[k]

\* lit in q
Contains(q, lit) == \E i \in 1..(Len(q) - Len(lit) + 1) : StartsAt(q, i, lit)

\* the end of the longest run of digits that starts at i (i - 1: no digit)
RECURSIVE DigitRunEnd(_, _)
DigitRunEnd(q, i) ==
    IF i <= Len(q) /\ IsDigit(q[i]) THEN DigitRunEnd(q, i + 1) ELSE i - 1

\* int(text), text a run of decimal digits
RECURSIVE ToInt(_)
ToInt(text) ==
    IF text = <<>> THEN 0
    ELSE 10 * ToInt(SubSeq(text, 1, Len(text) - 1))
         + (IndexOf(Digits, text[Len(text)]) - 1)

\* what re.search returns: None, or a match with its group 1
NoMatch == [matched |-> FALSE]
Match(group) == [matched |-> TRUE, group |-> group]

\* re.search(prefix (\d+) suffix, q): the leftmost match.
\* \d+ is greedy; no suffix here starts with a digit, so only the longest
\* run can be followed by it.
SearchNumber(q, prefix, suffix) ==
    LET hits == {i \in 1..Len(q) :
                    /\ StartsAt(q, i, prefix)
                    /\ DigitRunEnd(q, i + Len(prefix)) >= i + Len(prefix)
                    /\ StartsAt(q, DigitRunEnd(q, i + Len(prefix)) + 1, suffix)}
    IN  IF hits = {} THEN NoMatch
        ELSE LET i == Min(hits)
             IN  Match(SubSeq(q, i + Len(prefix),
                              DigitRunEnd(q, i + Len(prefix))))

\* head(?:s1|s2)?(?: the letter)? as the literals it can match, in the
\* order the regex engine tries them: each suffix before the empty one, and
\* for each the optional ' the letter' before its absence; then the blank
Alternatives(head, suffixes) ==
    LET sfx == suffixes \o << <<>> >>
    IN  [n \in 1..(2 * Len(sfx)) |->
            head \o sfx[(n + 1) \div 2]
                 \o (IF n % 2 = 1 THEN K_sp_the_letter ELSE <<>>) \o <<" ">>]

\* contain(?:ing|s)?(?: the letter)? ([a-z]), with(?: the letter)? ([a-z]),
\* that have(?: the letter)? ([a-z])
contains_patterns ==
    << Alternatives(K_contain, <<K_ing, K_s>>),
       Alternatives(K_with, <<>>),
       Alternatives(K_that_have, <<>>) >>

\* re.search(pattern ([a-z]), q): the leftmost match
SearchLetter(q, alts) ==
    LET At(i) == {n \in DOMAIN alts :
                     /\ StartsAt(q, i, alts[n])
                     /\ i + Len(alts[n]) <= Len(q)
                     /\ IsLowerLetter(q[i + Len(alts[n])])}
        hits == {i \in 1..Len(q) : At(i) # {}}
    IN  IF hits = {} THEN NoMatch
        ELSE LET i == Min(hits) IN Match(<<q[i + Len(alts[Min(At(i))])]>>)

\* ------------------------------------------------------------------ parser

EmptyDict == [k \in {} |-> None]

\* d[k] = v
DictSet(d, k, v) == [x \in (DOMAIN d) \cup {k} |-> IF x = k THEN v ELSE d[x]]

\* lines 82-85
PalindromeStep(q, filters) ==
    IF Contains(q, K_palindrome) \/ Contains(q, K_palindromic)
       \/ Contains(q, K_reads_the_same)
    THEN DictSet(filters, "is_palindrome", TRUE) ELSE filters

\* lines 87-94
WordPhraseStep(q, filters) ==
    IF Contains(q, K_single_word) \/ Contains(q, K_one_word)
    THEN DictSet(filters, "word_count", 1)
    ELSE IF Contains(q, K_two_word) THEN DictSet(filters, "word_count", 2)
    ELSE IF Contains(q, K_three_word) THEN DictSet(filters, "word_count", 3)
    ELSE filters

\* lines 96-99
WordCountStep(q, filters) ==
    LET word_count_match == SearchNumber(q, K_with_sp, K_sp_word)
    IN  IF word_count_match.matched
        THEN DictSet(filters, "word_count", ToInt(word_count_match.group)) ELSE filters

\* lines 101-105
LongerStep(q, filters) ==
    LET longer_match == SearchNumber(q, K_longer_than_sp, <<>>)
    IN  IF longer_match.matched
        THEN DictSet(filters, "min_length", ToInt(longer_match.group) + 1) ELSE filters

\* lines 107-110
ShorterStep(q, filters) ==
    LET shorter_match == SearchNumber(q, K_shorter_than_sp, <<>>)
    IN  IF shorter_match.matched
        THEN DictSet(filters, "max_length", ToInt(shorter_match.group) - 1) ELSE filters

\* lines 112-115
AtLeastStep(q, filters) ==
    LET at_least_match == SearchNumber(q, K_at_least_sp, K_sp_character)
    IN  IF at_least_match.matched
        THEN DictSet(filters, "min_length", ToInt(at_least_match.group)) ELSE filters

\* lines 117-120
AtMostStep(q, filters) ==
    LET at_most_match == SearchNumber(q, K_at_most_sp, K_sp_character)
    IN  IF at_most_match.matched
        THEN DictSet(filters, "max_length", ToInt(at_most_match.group)) ELSE filters

\* lines 122-134: the first pattern that matches, then break
RECURSIVE ContainsStep(_, _, _)
ContainsStep(q, filters, n) ==
    IF n > Len(contains_patterns) THEN filters
    ELSE LET contains_match == SearchLetter(q, contains_patterns[n])
         IN  IF contains_match.matched
             THEN DictSet(filters, "contains_character", contains_match.group)
             ELSE ContainsStep(q, filters, n + 1)

\* lines 136-138
FirstVowelStep(q, filters) ==
    IF Contains(q, K_first_vowel)
    THEN DictSet(filters, "contains_character", <<"a">>) ELSE filters

\* the inclusive phrases read before the exclusive ones, so that the
\* exclusive value is the one that stays: what C7's precedence excludes
Recognize_InclusiveFirst(q) ==
    LET f1 == PalindromeStep(q, EmptyDict)
        f2 == WordPhraseStep(q, f1)
        f3 == WordCountStep(q, f2)
        f4 == AtLeastStep(q, f3)
        f5 == AtMostStep(q, f4)
        f6 == LongerStep(q, f5)
        f7 == ShorterStep(q, f6)
        f8 == ContainsStep(q, f7, 1)
    IN  FirstVowelStep(q, f8)

\* the recognizers of lines 82-138, in the order they run
Recognize(q) ==
    LET f1 == PalindromeStep(q, EmptyDict)
        f2 == WordPhraseStep(q, f1)
        f3 == WordCountStep(q, f2)
        f4 == LongerStep(q, f3)
        f5 == ShorterStep(q, f4)
        f6 == AtLeastStep(q, f5)
        f7 == AtMostStep(q, f6)
        f8 == ContainsStep(q, f7, 1)
    IN  FirstVowelStep(q, f8)

\* lines 140-143
Conflicting(filters) ==
    /\ "min_length" \in DOMAIN filters
    /\ "max_length" \in DOMAIN filters
    /\ filters["min_length"] > filters["max_length"]

\* lines 140-149: the filters, or the ValueError raised
Checked(filters) ==
    IF Conflicting(filters) THEN [raised |-> MsgConflict]
    ELSE IF DOMAIN filters = {} THEN [raised |-> MsgNoFilters]
    ELSE [returned |-> filters]

\* lines 75-80, then the recognizers and the checks
Parsed(query_lower) ==
    IF query_lower = <<>> THEN [raised |-> MsgEmpty]
    ELSE Checked(Recognize(query_lower))

parse_natural_language_query(query) == Parsed(Strip(Lower(query)))

Raised(r) == "raised" \in DOMAIN r

\* ------------------------------------------------------------ the table

\* an insert that files the length under word_count: what C9's derivation
\* of the stored fields excludes
objects_create_WordCountLost(rows, properties, now) ==
    IF \E r \in rows : r.sha256_hash = properties.sha256_hash
                       \/ r.value = properties.value
    THEN [raised |-> "IntegrityError", rows |-> rows]
    ELSE LET row == [value |-> properties.value,
                     sha256_hash |-> properties.sha256_hash,
                     length |-> properties.length,
                     is_palindrome |-> properties.is_palindrome,
                     unique_characters |-> properties.unique_characters,
                     word_count |-> properties.length,
                     character_frequency_map |-> properties.character_frequency_map,
                     created_at |-> now]
         IN  [returned |-> row, rows |-> rows \cup {row}]

\* sha256_hash and value are unique=True (models.py): an insert that would
\* repeat either raises IntegrityError and leaves the table as it was
objects_create(rows, properties, now) ==
    IF \E r \in rows : r.sha256_hash = properties.sha256_hash
                       \/ r.value = properties.value
    THEN [raised |-> "IntegrityError", rows |-> rows]
    ELSE LET row == [value |-> properties.value,
                     sha256_hash |-> properties.sha256_hash,
                     length |-> properties.length,
                     is_palindrome |-> properties.is_palindrome,
                     unique_characters |-> properties.unique_characters,
                     word_count |-> properties.word_count,
                     character_frequency_map |-> properties.character_frequency_map,
                     created_at |-> now]
         IN  [returned |-> row, rows |-> rows \cup {row}]

\* Meta.ordering = ['-created_at']: a queryset's rows, newest first
RECURSIVE OrderByCreatedDesc(_)
OrderByCreatedDesc(rows) ==
    IF rows = {} THEN <<>>
    ELSE LET newest == CHOOSE r \in rows :
                           \A o \in rows : o.created_at <= r.created_at
         IN  <<newest>> \o OrderByCreatedDesc(rows \ {newest})

\* AnalyzedStringSerializer(obj).data
AnalyzedStringSerializer(obj) ==
    [id |-> obj.sha256_hash,
     value |-> obj.value,
     properties |-> [length |-> obj.length,
                     is_palindrome |-> obj.is_palindrome,
                     unique_characters |-> obj.unique_characters,
                     word_count |-> obj.word_count,
                     sha256_hash |-> obj.sha256_hash,
                     character_frequency_map |-> obj.character_frequency_map],
     created_at |-> obj.created_at]

\* AnalyzedStringSerializer(queryset, many=True).data
SerializeMany(rows) ==
    LET ordered == OrderByCreatedDesc(rows)
    IN  [i \in DOMAIN ordered |-> AnalyzedStringSerializer(ordered[i])]

\* str.__contains__ on lower-cased text: value__icontains
IContains(value, text) == Contains(Lower(value), Lower(text))

\* a filter whose lower length bound is strict: what C6's min_length
\* clause excludes
qs_filter_StrictMin(rows, lookup, operand) ==
    CASE lookup = "is_palindrome" -> {r \in rows : r.is_palindrome = operand}
      [] lookup = "length__gte" -> {r \in rows : r.length > operand}
      [] lookup = "length__lte" -> {r \in rows : r.length <= operand}
      [] lookup = "word_count" -> {r \in rows : r.word_count = operand}
      [] lookup = "value__icontains" -> {r \in rows : IContains(r.value, operand)}
      [] lookup = "value" -> {r \in rows : r.value = operand}
      [] lookup = "sha256_hash" -> {r \in rows : r.sha256_hash = operand}

\* queryset.filter(lookup=operand)
qs_filter(rows, lookup, operand) ==
    CASE lookup = "is_palindrome" -> {r \in rows : r.is_palindrome = operand}
      [] lookup = "length__gte" -> {r \in rows : r.length >= operand}
      [] lookup = "length__lte" -> {r \in rows : r.length <= operand}
      [] lookup = "word_count" -> {r \in rows : r.word_count = operand}
      [] lookup = "value__icontains" -> {r \in rows : IContains(r.value, operand)}
      [] lookup = "value" -> {r \in rows : r.value = operand}
      [] lookup = "sha256_hash" -> {r \in rows : r.sha256_hash = operand}

\* ------------------------------------------------------- request bodies

\* A JSON value is [type |-> "str", s |-> characters], [type |-> "int",
\* n |-> integer], [type |-> "bool", b |-> boolean], [type |-> "null"],
\* [type |-> "list"] or [type |-> "dict"].
JStr(s) == [type |-> "str", s |-> s]
JInt(n) == [type |-> "int", n |-> n]

\* str(n), n an int
RECURSIVE NatToStr(_)
NatToStr(n) ==
    IF n < 10 THEN <<Digits[n + 1]>>
    ELSE Append(NatToStr(n \div 10), Digits[(n % 10) + 1])
IntToStr(n) == IF n < 0 THEN <<"-">> \o NatToStr(-n) ELSE NatToStr(n)

\* value = serializers.CharField(required=True, allow_blank=False), with the
\* field's defaults allow_null=False and trim_whitespace=True: a blank string
\* (empty once stripped) and null are refused, a bool or a composite is
\* refused, a str or a number is coerced with str() and stripped.
\* validate_value then sees a str and passes it on.
StringInputSerializer(data) ==
    LET given == data["value"]
    IN  IF given.type = "str" /\ Strip(given.s) = <<>>
        THEN [is_valid |-> FALSE, code |-> "blank"]
        ELSE IF given.type = "null"
        THEN [is_valid |-> FALSE, code |-> "null"]
        ELSE IF given.type \notin {"str", "int"}
        THEN [is_valid |-> FALSE, code |-> "invalid"]
        ELSE [is_valid |-> TRUE,
              value |-> Strip(IF given.type = "str" THEN given.s
                              ELSE IntToStr(given.n))]

\* ------------------------------------------------------------------ views

Response(status, body, rows, now) ==
    [status |-> status, body |-> body, rows |-> rows, now |-> now]

\* Response({'error': message}, status=status)
\* (the status and the key are the code's; the message texts are shortened,
\* and the prefix views.py line 262 puts before a parser message is left out)
ErrorResponse(status, message, rows, now) ==
    Response(status, [error |-> message], rows, now)

\* lines 26-53: the 400 or 422 of a refused body, or the properties of the
\* validated value
PostValidated(data) ==
    IF "value" \notin DOMAIN data
    THEN [refused |-> 400, error |-> "Missing value field in request body"]
    ELSE IF ~StringInputSerializer(data).is_valid
    THEN IF data["value"].type # "str"
         THEN [refused |-> 422, error |-> "Invalid data type for value"]
         ELSE [refused |-> 400, error |-> "Invalid request body"]
    ELSE [properties |-> analyze_string(StringInputSerializer(data).value)]

Refused(validated) == "refused" \in DOMAIN validated

\* line 56: AnalyzedString.objects.filter(sha256_hash=...).exists()
HashExists(rows, properties) ==
    qs_filter(rows, "sha256_hash", properties.sha256_hash) # {}

\* lines 63-75: the row is inserted and returned with 201; an IntegrityError
\* is handled nowhere and the request ends with 500
PostCreated(made, now) ==
    IF Raised(made) THEN ErrorResponse(500, made.raised, made.rows, now)
    ELSE Response(201, AnalyzedStringSerializer(made.returned), made.rows,
                  now + 1)

\* lines 55-75
PostChecked(properties, rows, now) ==
    IF HashExists(rows, properties)
    THEN ErrorResponse(409, "String already exists in the system", rows,
                       now)
    ELSE PostCreated(objects_create(rows, properties, now), now)

\* lines 26-75
PostHandled(validated, rows, now) ==
    IF Refused(validated)
    THEN ErrorResponse(validated.refused, validated.error, rows, now)
    ELSE PostChecked(validated.properties, rows, now)

\* POST /strings
StringCreateListView_post(data, rows, now) ==
    PostHandled(PostValidated(data), rows, now)

\* int(text): an optional sign and decimal digits, blanks around them
\* ignored; anything else raises ValueError
ParseInt(text) ==
    LET t == Strip(text)
        signed == t # <<>> /\ t[1] \in {"-", "+"}
        digits == IF signed THEN Tail(t) ELSE t
    IN  IF digits = <<>> \/ \E i \in DOMAIN digits : ~IsDigit(digits[i])
        THEN [raised |-> "ValueError"]
        ELSE [returned |-> IF signed /\ t[1] = "-" THEN 0 - ToInt(digits)
                           ELSE ToInt(digits)]

\* a non-negative int parameter, or the ValueError of lines 112-118
NonNegative(text) ==
    LET n == ParseInt(text)
    IN  IF Raised(n) THEN n
        ELSE IF n.returned < 0 THEN [raised |-> "ValueError"] ELSE n

K_true == <<"t", "r", "u", "e">>
K_false == <<"f", "a", "l", "s", "e">>

\* GET /strings, one parameter at a time; acc is the queryset so far, the
\* filters applied so far, and whether a 400 was already returned
Narrowed(acc, lookup, operand, key) ==
    [queryset |-> qs_filter(acc.queryset, lookup, operand),
     filters_applied |-> DictSet(acc.filters_applied, key, operand),
     rejected |-> FALSE]

Rejected(acc) == [acc EXCEPT !.rejected = TRUE]

\* lines 97-107
ListStep_is_palindrome(params, acc) ==
    IF acc.rejected \/ "is_palindrome" \notin DOMAIN params THEN acc
    ELSE LET is_palindrome == params["is_palindrome"]
         IN  IF Lower(is_palindrome) \notin {K_true, K_false} THEN Rejected(acc)
             ELSE Narrowed(acc, "is_palindrome", Lower(is_palindrome) = K_true,
                           "is_palindrome")

\* lines 109-122
ListStep_min_length(params, acc) ==
    IF acc.rejected \/ "min_length" \notin DOMAIN params THEN acc
    ELSE LET min_length_int == NonNegative(params["min_length"])
         IN  IF Raised(min_length_int) THEN Rejected(acc)
             ELSE Narrowed(acc, "length__gte", min_length_int.returned,
                           "min_length")

\* lines 124-137
ListStep_max_length(params, acc) ==
    IF acc.rejected \/ "max_length" \notin DOMAIN params THEN acc
    ELSE LET max_length_int == NonNegative(params["max_length"])
         IN  IF Raised(max_length_int) THEN Rejected(acc)
             ELSE Narrowed(acc, "length__lte", max_length_int.returned,
                           "max_length")

\* lines 139-152
ListStep_word_count(params, acc) ==
    IF acc.rejected \/ "word_count" \notin DOMAIN params THEN acc
    ELSE LET word_count_int == NonNegative(params["word_count"])
         IN  IF Raised(word_count_int) THEN Rejected(acc)
             ELSE Narrowed(acc, "word_count", word_count_int.returned,
                           "word_count")

\* lines 154-163
ListStep_contains_character(params, acc) ==
    IF acc.rejected \/ "contains_character" \notin DOMAIN params THEN acc
    ELSE LET contains_character == params["contains_character"]
         IN  IF Len(contains_character) # 1 THEN Rejected(acc)
             ELSE Narrowed(acc, "value__icontains", contains_character,
                           "contains_character")

\* lines 95-178: the 400 already returned, or the 200 of the queryset
ListResponse(acc, rows, now) ==
    IF acc.rejected THEN ErrorResponse(400, "Invalid query parameter", rows, now)
    ELSE Response(200,
                  [data |-> SerializeMany(acc.queryset),
                   count |-> Cardinality(acc.queryset),
                   filters_applied |-> acc.filters_applied],
                  rows, now)

\* GET /strings
StringCreateListView_get(params, rows, now) ==
    LET a0 == [queryset |-> rows, filters_applied |-> EmptyDict,
               rejected |-> FALSE]
        a1 == ListStep_is_palindrome(params, a0)
        a2 == ListStep_min_length(params, a1)
        a3 == ListStep_max_length(params, a2)
        a4 == ListStep_word_count(params, a3)
    IN  ListResponse(ListStep_contains_character(params, a4), rows, now)

\* GET /strings/{string_value}
StringDetailView_get(string_value, rows, now) ==
    LET found == qs_filter(rows, "value", string_value)
    IN  IF found = {}
        THEN ErrorResponse(404, "String does not exist in the system", rows, now)
        ELSE Response(200, AnalyzedStringSerializer(CHOOSE r \in found : TRUE),
                      rows, now)

\* DELETE /strings/{string_value}
StringDetailView_delete(string_value, rows, now) ==
    LET found == qs_filter(rows, "value", string_value)
    IN  IF found = {}
        THEN ErrorResponse(404, "String does not exist in the system", rows, now)
        ELSE Response(204, None, rows \ found, now)

\* lines 266-283: the parsed filters applied to the queryset
NaturalLanguageQueryset(parsed_filters, rows) ==
    LET Step(qs, key, lookup) ==
            IF key \in DOMAIN parsed_filters
            THEN qs_filter(qs, lookup, parsed_filters[key]) ELSE qs
        q1 == Step(rows, "is_palindrome", "is_palindrome")
        q2 == Step(q1, "word_count", "word_count")
        q3 == Step(q2, "min_length", "length__gte")
        q4 == Step(q3, "max_length", "length__lte")
    IN  Step(q4, "contains_character", "value__icontains")

\* lines 266-301: the 200 of the filtered queryset
NaturalLanguageResults(query, parsed_filters, queryset, rows, now) ==
    Response(200,
             [data |-> SerializeMany(queryset),
              count |-> Cardinality(queryset),
              interpreted_query |-> [original |-> query,
                                     parsed_filters |-> parsed_filters]],
             rows, now)

\* the message searched as it is written, capital and all: what C5's 422
\* for conflicting bounds excludes
NaturalLanguageResponse_CaseKept(query, parsed, rows, now) ==
    IF Raised(parsed)
    THEN IF Contains(parsed.raised, K_conflicting)
         THEN ErrorResponse(422, parsed.raised, rows, now)
         ELSE ErrorResponse(400, parsed.raised, rows, now)
    ELSE NaturalLanguageResults(query, parsed.returned,
                                NaturalLanguageQueryset(parsed.returned, rows),
                                rows, now)

\* lines 251-264 and on: the parser's ValueError as a 422 or a 400, or
\* the results
NaturalLanguageResponse(query, parsed, rows, now) ==
    IF Raised(parsed)
    THEN IF Contains(Lower(parsed.raised), K_conflicting)
         THEN ErrorResponse(422, parsed.raised, rows, now)
         ELSE ErrorResponse(400, parsed.raised, rows, now)
    ELSE NaturalLanguageResults(query, parsed.returned,
                                NaturalLanguageQueryset(parsed.returned, rows),
                                rows, now)

\* GET /strings/filter-by-natural-language
NaturalLanguageFilterView_get(params, rows, now) ==
    IF "query" \notin DOMAIN params \/ params["query"] = <<>>
    THEN ErrorResponse(400, "Missing query parameter", rows, now)
    ELSE NaturalLanguageResponse(params["query"],
                                 parse_natural_language_query(params["query"]),
                                 rows, now)

\* ---------------------------------------------------------------- routing

\* 'strings'
K_strings ==
    <<"s", "t", "r", "i", "n", "g", "s">>
\* 'filter-by-natural-language'
K_filter_by_natural_language ==
    <<"f", "i", "l", "t", "e", "r", "-", "b", "y", "-", "n", "a", "t", "u",
      "r", "a", "l", "-", "l", "a", "n", "g", "u", "a", "g", "e">>

\* the path of /strings/{value}
StringsPath(value) == K_strings \o <<"/">> \o value

\* urlpatterns, tried in order: the first route the path matches.
\* <path:string_value> takes one character or more.
urlpatterns(path) ==
    IF path = StringsPath(K_filter_by_natural_language)
    THEN [name |-> "natural_language_filter"]
    ELSE IF path = K_strings
    THEN [name |-> "string_create_list"]
    ELSE IF StartsAt(path, 1, StringsPath(<<>>)) /\ Len(path) > Len(K_strings) + 1
    THEN [name |-> "string_detail",
          string_value |-> SubSeq(path, Len(K_strings) + 2, Len(path))]
    ELSE [name |-> None]

MethodNotAllowed(rows, now) == ErrorResponse(405, "Method not allowed", rows, now)

\* the resolver and APIView.dispatch: the view's handler for the method
Dispatch(request, rows, now) ==
    LET match == urlpatterns(request.path)
        method == request.method
    IN  CASE match.name = "natural_language_filter" ->
               IF method = "GET"
               THEN NaturalLanguageFilterView_get(request.params, rows, now)
               ELSE MethodNotAllowed(rows, now)
          [] match.name = "string_create_list" ->
               IF method = "POST"
               THEN StringCreateListView_post(request.data, rows, now)
               ELSE IF method = "GET"
               THEN StringCreateListView_get(request.params, rows, now)
               ELSE MethodNotAllowed(rows, now)
          [] match.name = "string_detail" ->
               IF method = "GET"
               THEN StringDetailView_get(match.string_value, rows, now)
               ELSE IF method = "DELETE"
               THEN StringDetailView_delete(match.string_value, rows, now)
               ELSE MethodNotAllowed(rows, now)
          [] OTHER -> ErrorResponse(404, "Not Found", rows, now)

\* ------------------------------------------------------------- operations

Request(method, path, data, params) ==
    [method |-> method, path |-> path, data |-> data, params |-> params]

\* the view's outcome takes effect and the response goes out
Respond(request, out) ==
    /\ out.now <= MaxCreates
    /\ store' = out.rows
    /\ clock' = out.now
    /\ resp' = [request |-> request, status |-> out.status, body |-> out.body]

\* one request served from start to end
Serve(request) == Respond(request, Dispatch(request, store, clock))

\* the client takes the response
Receive ==
    /\ resp # NoResponse
    /\ resp' = NoResponse
    /\ UNCHANGED <<store, clock, inflight, arg, result>>

\* POST /strings
PostStrings(data) ==
    /\ resp = NoResponse
    /\ Serve(Request("POST", K_strings, data, EmptyDict))
    /\ UNCHANGED <<inflight, arg, result>>

\* GET /strings?...
GetStrings(params) ==
    /\ resp = NoResponse
    /\ Serve(Request("GET", K_strings, EmptyDict, params))
    /\ UNCHANGED <<inflight, arg, result>>

\* GET /strings/{value}
GetString(value) ==
    /\ resp = NoResponse
    /\ Serve(Request("GET", StringsPath(value), EmptyDict, EmptyDict))
    /\ UNCHANGED <<inflight, arg, result>>

\* DELETE /strings/{value}
DeleteString(value) ==
    /\ resp = NoResponse
    /\ Serve(Request("DELETE", StringsPath(value), EmptyDict, EmptyDict))
    /\ UNCHANGED <<inflight, arg, result>>

\* GET /strings/filter-by-natural-language?...
GetNaturalLanguage(params) ==
    /\ resp = NoResponse
    /\ Serve(Request("GET", StringsPath(K_filter_by_natural_language),
                     EmptyDict, params))
    /\ UNCHANGED <<inflight, arg, result>>

\* ------------------------------------------------- analyzer on its own

AnalyzeAlphabet == {"a", "b", "A", " ", "\t"}

RECURSIVE StringsUpTo(_, _)
StringsUpTo(alphabet, n) ==
    IF n = 0 THEN {<<>>}
    ELSE LET shorter == StringsUpTo(alphabet, n - 1)
         IN shorter \cup {Append(s, c) : s \in {t \in shorter : Len(t) = n - 1},
                                         c \in alphabet}

IdleService ==
    /\ store = {}
    /\ clock = 0
    /\ resp = NoResponse
    /\ inflight = <<>>

InitAnalyze ==
    /\ IdleService
    /\ arg \in StringsUpTo(AnalyzeAlphabet, MaxLen)
    /\ result = NotRun

Analyze ==
    /\ result' = Ran(analyze_string(arg))
    /\ UNCHANGED <<store, clock, resp, inflight, arg>>

NextAnalyze == Analyze

SpecAnalyze == InitAnalyze /\ [][NextAnalyze]_vars

\* ----------------------------------------------------- parser on its own

\* the phrases queries are made of
Phrases ==
    <<
      \* 1: 'palindromic'
      <<"p", "a", "l", "i", "n", "d", "r", "o", "m", "i", "c">>,
      \* 2: 'single word'
      <<"s", "i", "n", "g", "l", "e", " ", "w", "o", "r", "d">>,
      \* 3: 'with two words'
      <<"w", "i", "t", "h", " ", "t", "w", "o", " ", "w", "o", "r", "d", "s">>,
      \* 4: 'with 3 words'
      <<"w", "i", "t", "h", " ", "3", " ", "w", "o", "r", "d", "s">>,
      \* 5: 'longer than 2'
      <<"l", "o", "n", "g", "e", "r", " ", "t", "h", "a", "n", " ", "2">>,
      \* 6: 'longer than 9'
      <<"l", "o", "n", "g", "e", "r", " ", "t", "h", "a", "n", " ", "9">>,
      \* 7: 'shorter than 3'
      <<"s", "h", "o", "r", "t", "e", "r", " ", "t", "h", "a", "n", " ", "3">>,
      \* 8: 'shorter than 0'
      <<"s", "h", "o", "r", "t", "e", "r", " ", "t", "h", "a", "n", " ", "0">>,
      \* 9: 'at least 10 characters'
      <<"a", "t", " ", "l", "e", "a", "s", "t", " ", "1", "0", " ", "c", "h",
        "a", "r", "a", "c", "t", "e", "r", "s">>,
      \* 10: 'at least 2'
      <<"a", "t", " ", "l", "e", "a", "s", "t", " ", "2">>,
      \* 11: 'at most 1 character'
      <<"a", "t", " ", "m", "o", "s", "t", " ", "1", " ", "c", "h", "a", "r",
        "a", "c", "t", "e", "r">>,
      \* 12: 'containing the letter z'
      <<"c", "o", "n", "t", "a", "i", "n", "i", "n", "g", " ", "t", "h", "e",
        " ", "l", "e", "t", "t", "e", "r", " ", "z">>,
      \* 13: 'with the letter q'
      <<"w", "i", "t", "h", " ", "t", "h", "e", " ", "l", "e", "t", "t", "e",
        "r", " ", "q">>,
      \* 14: 'that have e'
      <<"t", "h", "a", "t", " ", "h", "a", "v", "e", " ", "e">>,
      \* 15: 'Contains B'
      <<"C", "o", "n", "t", "a", "i", "n", "s", " ", "B">>,
      \* 16: 'first vowel'
      <<"f", "i", "r", "s", "t", " ", "v", "o", "w", "e", "l">>,
      \* 17: 'banana'
      <<"b", "a", "n", "a", "n", "a">>,
      \* 18: '  '
      <<" ", " ">>
    >>

\* ' '.join(phrases)
RECURSIVE Join(_)
Join(ps) ==
    IF ps = <<>> THEN <<>>
    ELSE IF Len(ps) = 1 THEN Phrases[ps[1]]
    ELSE Phrases[ps[1]] \o <<" ">> \o Join(Tail(ps))

\* the phrase lists of at most n phrases
PhraseLists(n) == UNION {[1..k -> DOMAIN Phrases] : k \in 0..n}

InitParse ==
    /\ IdleService
    /\ arg \in {Join(ps) : ps \in PhraseLists(MaxPhrases)}
    /\ result = NotRun

Parse ==
    /\ result' = Ran(parse_natural_language_query(arg))
    /\ UNCHANGED <<store, clock, resp, inflight, arg>>

NextParse == Parse

SpecParse == InitParse /\ [][NextParse]_vars

\* ------------------------------------------------------------ the service

\* the strings clients submit and ask for: 'a', ' a', 'Aa', '', ' \t' and
\* the path segment of the natural-language route
SubmittedStrings ==
    { <<"a">>, <<" ", "a">>, <<"A", "a">>, <<>>, <<" ", "\t">>,
      K_filter_by_natural_language }

\* the JSON bodies of POST /strings: no value, a string, and the other
\* JSON types
PostBodies ==
    {EmptyDict}
    \cup {[value |-> JStr(s)] : s \in SubmittedStrings}
    \cup {[value |-> j] : j \in {JInt(7), [type |-> "bool", b |-> TRUE],
                                 [type |-> "null"], [type |-> "list"],
                                 [type |-> "dict"]}}

\* the values asked for in the path: one character or more
PathValues == {s \in SubmittedStrings : s # <<>>} \cup {<<"7">>}

\* a few query strings of GET /strings
FewListParams ==
    {EmptyDict, [is_palindrome |-> K_true], [min_length |-> <<"2">>],
     [max_length |-> <<"-", "1">>], [contains_character |-> <<"A">>]}

\* a few query strings of GET /strings/filter-by-natural-language
FewQueries ==
    {EmptyDict, [query |-> <<>>], [query |-> Phrases[1]],
     [query |-> Phrases[5]], [query |-> Phrases[17]]}

Init ==
    /\ IdleService
    /\ arg = None
    /\ result = NotRun

Next ==
    \/ \E data \in PostBodies : PostStrings(data)
    \/ \E params \in FewListParams : GetStrings(params)
    \/ \E value \in PathValues : GetString(value)
    \/ \E value \in PathValues : DeleteString(value)
    \/ \E params \in FewQueries : GetNaturalLanguage(params)
    \/ Receive

Spec == Init /\ [][Next]_vars

\* ------------------------------------------------------------ the filters

\* the strings stored for filtering: 'A', 'ab', 'b b'
FilterStrings == { <<"A">>, <<"a", "b">>, <<"b", " ", "b">> }

\* what a client may give for each parameter of GET /strings, well-formed
\* or not
ParamOptions ==
    [is_palindrome |-> {K_true, <<"F", "a", "l", "s", "e">>, <<"y", "e", "s">>},
     min_length |-> {<<"2">>, <<"-", "1">>},
     max_length |-> {<<"1">>, <<"2">>},
     word_count |-> {<<"1">>, <<"x">>},
     contains_character |-> {<<"a">>, <<"B">>, <<"a", "b">>}]

\* the query strings with at most n parameters
ListParams(n) ==
    UNION {{params \in [keys -> UNION {ParamOptions[k] : k \in keys}] :
               \A k \in keys : params[k] \in ParamOptions[k]} :
           keys \in {ks \in SUBSET DOMAIN ParamOptions : Cardinality(ks) <= n}}

FilterParams == ListParams(MaxParams)

\* the phrases that select among FilterStrings: 'palindromic', 'single
\* word', 'with two words', 'longer than 2', 'at most 1 character',
\* 'Contains B'
FilterPhrases == {1, 2, 3, 5, 11, 15}

FilterQueries ==
    {[query |-> Join(ps)] :
        ps \in UNION {[1..k -> FilterPhrases] : k \in 1..MaxPhrases}}

NextFilter ==
    \/ \E s \in FilterStrings : PostStrings([value |-> JStr(s)])
    \/ \E params \in FilterParams : GetStrings(params)
    \/ \E params \in FilterQueries : GetNaturalLanguage(params)
    \/ Receive

SpecFilter == Init /\ [][NextFilter]_vars

\* ------------------------------------------- the natural-language endpoint

\* no query parameter, or a query of at most MaxPhrases phrases (the empty
\* and the blank ones among them)
AllQueries ==
    {EmptyDict} \cup {[query |-> Join(ps)] : ps \in PhraseLists(MaxPhrases)}

NextNaturalLanguage ==
    \/ PostStrings([value |-> JStr(<<"a", "b">>)])
    \/ \E params \in AllQueries : GetNaturalLanguage(params)
    \/ Receive

SpecNaturalLanguage == Init /\ [][NextNaturalLanguage]_vars

\* ------------------------------------------------ concurrent POST /strings

\* Each request runs in its own worker; the table is shared.  A request
\* reads the body and analyzes the value, then asks the table whether the
\* hash exists, then inserts: two statements, each atomic in the database,
\* with no transaction or lock around the pair.

\* 'a', ' a', 'Aa', and a body with no value
ConcurrentBodies ==
    {[value |-> JStr(<<"a">>)], [value |-> JStr(<<" ", "a">>)],
     [value |-> JStr(<<"A", "a">>)], EmptyDict}

Clients == 1..NumClients

InitConcurrent ==
    /\ store = {}
    /\ clock = 0
    /\ resp = NoResponse
    /\ inflight = [c \in Clients |-> [pc |-> "idle"]]
    /\ arg = None
    /\ result = NotRun

Finish(c, data, status) ==
    inflight' = [inflight EXCEPT ![c] = [pc |-> "done", data |-> data,
                                        status |-> status]]

\* lines 26-53
PostArrives(c, data) ==
    /\ inflight[c].pc = "idle"
    /\ IF Refused(PostValidated(data))
       THEN Finish(c, data, PostValidated(data).refused)
       ELSE inflight' = [inflight EXCEPT ![c] =
                            [pc |-> "exists", data |-> data,
                             properties |-> PostValidated(data).properties]]
    /\ UNCHANGED <<store, clock, resp, arg, result>>

\* lines 55-60
PostAsksExists(c) ==
    /\ inflight[c].pc = "exists"
    /\ IF HashExists(store, inflight[c].properties)
       THEN Finish(c, inflight[c].data, 409)
       ELSE inflight' = [inflight EXCEPT ![c].pc = "create"]
    /\ UNCHANGED <<store, clock, resp, arg, result>>

Inserted(c, out) ==
    /\ out.now <= MaxCreates
    /\ store' = out.rows
    /\ clock' = out.now
    /\ Finish(c, inflight[c].data, out.status)

\* lines 62-75
PostInserts(c) ==
    /\ inflight[c].pc = "create"
    /\ Inserted(c, PostCreated(objects_create(store, inflight[c].properties,
                                              clock), clock))
    /\ UNCHANGED <<resp, arg, result>>

NextConcurrent ==
    \/ \E c \in Clients, data \in ConcurrentBodies : PostArrives(c, data)
    \/ \E c \in Clients : PostAsksExists(c)
    \/ \E c \in Clients : PostInserts(c)

SpecConcurrent == InitConcurrent /\ [][NextConcurrent]_vars

\* ------------------------------------------------- claims on the service

\* what the step just taken served
Served(method) == resp'.status # 0 /\ resp'.request.method = method
ServedPost == Served("POST") /\ resp'.request.path = K_strings
PostedString ==
    /\ ServedPost
    /\ "value" \in DOMAIN resp'.request.data
    /\ resp'.request.data["value"].type = "str"
Stored(rows, value) == \E r \in rows : r.value = value

\* C1: a POST whose string has the content (the SHA-256 hash) of a stored
\* record returns 409 and leaves the store as it was; a POST of a string
\* that passes validation and whose content is not stored returns 201 and
\* adds exactly one record, for that value, every other record unchanged.
C1_PostAddsOrRejects ==
    [][PostedString /\ StringInputSerializer(resp'.request.data).is_valid
        => LET v == resp'.request.data["value"].s
           IN  IF \E r \in store : r.sha256_hash = calculate_sha256(v)
               THEN resp'.status = 409 /\ store' = store
               ELSE /\ resp'.status = 201
                    /\ \E row \in store' :
                          /\ row \notin store
                          /\ row.value = v
                          /\ store' = store \cup {row}]_vars

\* the string value of the path /strings/{value}
PathValue(path) == SubSeq(path, Len(K_strings) + 2, Len(path))
ServedValue(method) ==
    /\ Served(method)
    /\ StartsAt(resp'.request.path, 1, StringsPath(<<>>))
    /\ Len(resp'.request.path) > Len(K_strings) + 1

\* C3: GET /strings/{v} returns 200 with the record iff a record with
\* exactly the value v is stored and 404 otherwise; DELETE /strings/{v}
\* returns 204 and removes only that record iff it is stored and 404
\* otherwise; once POST of v has returned 201, GET of v returns 200 with the
\* same properties.  For every v a path can carry, the path segment of
\* another route included.
C3_DetailByValue ==
    [][/\ ServedValue("GET")
          => LET v == PathValue(resp'.request.path)
             IN  /\ store' = store
                 /\ IF Stored(store, v)
                    THEN /\ resp'.status = 200
                         /\ resp'.body.value = v
                         /\ \E r \in store : AnalyzedStringSerializer(r) = resp'.body
                    ELSE resp'.status = 404
       /\ ServedValue("DELETE")
          => LET v == PathValue(resp'.request.path)
             IN  IF Stored(store, v)
                 THEN /\ resp'.status = 204
                      /\ store' = {r \in store : r.value # v}
                 ELSE resp'.status = 404 /\ store' = store
       /\ PostedString /\ resp'.status = 201
          => LET v == resp'.request.data["value"].s
                 got == Dispatch(Request("GET", StringsPath(v), EmptyDict,
                                         EmptyDict), store', clock')
             IN  /\ got.status = 200
                 /\ got.body.properties = resp'.body.properties]_vars

\* C4: POST /strings without a value field gives 400; with a value that is
\* not a string it gives 422 and stores nothing; with any string, the empty
\* and the whitespace-only ones included, whose content is not yet stored it
\* gives 201 and stores a record whose value is exactly the submitted string.
C4_PostClassifiesBody ==
    [][ServedPost
        => LET data == resp'.request.data
           IN  IF "value" \notin DOMAIN data
               THEN resp'.status = 400
               ELSE IF data["value"].type # "str"
               THEN resp'.status = 422 /\ store' = store
               ELSE \/ Stored(store, data["value"].s)
                    \/ /\ resp'.status = 201
                       /\ resp'.body.value = data["value"].s
                       /\ Stored(store', data["value"].s)]_vars

\* C9: every stored record's hash, length, palindrome flag, unique
\* character count, word count and frequency map are the analyzer's for the
\* record's stored value; a record does not change between its creation and
\* its deletion; only a create (one record more) and a delete (one record
\* less) change the store, and no GET does.
DerivedFromValue(r) ==
    LET a == analyze_string(r.value)
    IN  /\ r.sha256_hash = a.sha256_hash
        /\ r.length = a.length
        /\ r.is_palindrome = a.is_palindrome
        /\ r.unique_characters = a.unique_characters
        /\ r.word_count = a.word_count
        /\ r.character_frequency_map = a.character_frequency_map

C9_RecordsDerivedAndImmutable ==
    [][/\ \A r \in store' : DerivedFromValue(r)
       /\ \A r \in store : Stored(store', r.value) => r \in store'
       /\ Served("GET") => store' = store
       /\ store' # store
          => \/ /\ ServedPost
                /\ resp'.status = 201
                /\ \E r \in store' : r \notin store /\ store' = store \cup {r}
             \/ /\ Served("DELETE")
                /\ resp'.status = 204
                /\ \E r \in store : store' = store \ {r}]_vars

\* C9 witness: two records are stored and a lookup has just returned one
C9_Witness ==
    /\ Cardinality(store) >= 2
    /\ resp.status = 200
    /\ resp.request.method = "GET"
    /\ "value" \in DOMAIN resp.body

\* ------------------------------------------------- claims on concurrency

AllDone == \A c \in Clients : inflight[c].pc = "done"
SameBody == \A c, d \in Clients : inflight[c].data = inflight[d].data

\* C2: when concurrent POSTs of one value that is not yet stored have all
\* ended, exactly one has ended with 201, every other one with 409, and the
\* store holds exactly one record for the value.
C2_OneCreatedOthersConflict ==
    AllDone /\ SameBody /\ ~Refused(PostValidated(inflight[1].data))
    => /\ Cardinality({c \in Clients : inflight[c].status = 201}) = 1
       /\ \A c \in Clients : inflight[c].status \in {201, 409}
       /\ Cardinality({r \in store :
              r.sha256_hash = PostValidated(inflight[1].data).properties.sha256_hash}) = 1

\* ------------------------------------- claims on the filtering endpoints

ServedNaturalLanguage ==
    /\ Served("GET")
    /\ resp'.request.path = StringsPath(K_filter_by_natural_language)
ServedList == Served("GET") /\ resp'.request.path = K_strings

BothBounds(filters) ==
    "min_length" \in DOMAIN filters /\ "max_length" \in DOMAIN filters

\* the outcome C5 names for a request with these parameters
C5_Expected(params, status, body, filters) ==
    IF DOMAIN filters = {} THEN status = 400
    ELSE IF BothBounds(filters) /\ filters["min_length"] > filters["max_length"]
    THEN status = 422
    ELSE /\ status = 200
         /\ body.interpreted_query.parsed_filters = filters
         /\ body.interpreted_query.parsed_filters # EmptyDict
         /\ BothBounds(filters) => filters["min_length"] <= filters["max_length"]

C5_Classified(params, status, body) ==
    /\ status # 200 => DOMAIN body = {"error"}
    /\ IF "query" \notin DOMAIN params THEN status = 400
       ELSE IF Strip(params["query"]) = <<>> THEN status = 400
       ELSE \A filters \in {Recognize(Strip(Lower(params["query"])))} :
               C5_Expected(params, status, body, filters)

\* C5: GET /strings/filter-by-natural-language answers 400 when query is
\* missing, empty or whitespace-only or when no recognizer sets a field; 422
\* exactly when the recognized filters have min_length > max_length;
\* otherwise 200 with those filters, not empty and with min_length <=
\* max_length when both are set.  A response other than 200 carries no
\* results, and the store is left as it was.
C5_NaturalLanguageOutcome ==
    [][ServedNaturalLanguage
        => /\ store' = store
           /\ \A r \in {resp'} : C5_Classified(r.request.params, r.status, r.body)]_vars

\* C5 witness: a query whose two length phrases conflict was answered 422
\* with records in the store
C5_Witness ==
    /\ resp.status = 422
    /\ store # {}
    /\ resp.request.params["query"] = Join(<<7, 6>>)

\* a record satisfies every set field of the filters
Satisfies(r, filters) ==
    /\ "is_palindrome" \in DOMAIN filters
          => r.is_palindrome = filters["is_palindrome"]
    /\ "min_length" \in DOMAIN filters => filters["min_length"] <= r.length
    /\ "max_length" \in DOMAIN filters => r.length <= filters["max_length"]
    /\ "word_count" \in DOMAIN filters => r.word_count = filters["word_count"]
    /\ "contains_character" \in DOMAIN filters
          => \E i \in DOMAIN r.value :
                LowerChar(r.value[i]) = LowerChar(filters["contains_character"][1])

\* data is exactly the records of rows that satisfy the filters, newest
\* first, and count is their number
ExactlyTheMatches(body, filters, rows) ==
    /\ {body.data[i] : i \in DOMAIN body.data}
          = {AnalyzedStringSerializer(r) : r \in {x \in rows : Satisfies(x, filters)}}
    /\ \A i, j \in DOMAIN body.data :
          i < j => body.data[i].created_at > body.data[j].created_at
    /\ body.count = Len(body.data)

\* C6: a 200 of GET /strings returns exactly the stored records that
\* satisfy the conjunction of the parameters given (is_palindrome exact,
\* min_length <= length <= max_length, word_count exact, contains_character
\* in the value whatever the case), newest first; a parameter not given
\* constrains nothing and no parameter returns every record; count is the
\* number returned; the store is left as it was.  The same for the filters
\* the natural-language endpoint parsed.
C6_FilterReturnsExactlyTheMatches ==
    [][/\ ServedList /\ resp'.status = 200
          => /\ DOMAIN resp'.body.filters_applied = DOMAIN resp'.request.params
             /\ ExactlyTheMatches(resp'.body, resp'.body.filters_applied, store)
             /\ resp'.request.params = EmptyDict
                   => Len(resp'.body.data) = Cardinality(store)
             /\ store' = store
       /\ ServedNaturalLanguage /\ resp'.status = 200
          => /\ ExactlyTheMatches(resp'.body,
                                  resp'.body.interpreted_query.parsed_filters,
                                  store)
             /\ store' = store]_vars

\* C6 witness: with three records stored, two parameters selected some of
\* them and left others out
C6_Witness ==
    /\ Cardinality(store) = 3
    /\ resp.status = 200
    /\ resp.request.path = K_strings
    /\ Cardinality(DOMAIN resp.request.params) = 2
    /\ resp.body.count = 2

\* ------------------------------------------------- claims on the parser

\* the words of a query, lower-cased
WordsOf(query) == Split(Lower(query))

\* the words of phrase stand in words from position j on
PhraseAt(words, j, phrase) ==
    /\ j + Len(phrase) - 1 <= Len(words)
    /\ \A k \in 1..Len(phrase) : words[j + k - 1] = phrase[k]

IsNumber(w) == w # <<>> /\ \A i \in DOMAIN w : IsDigit(w[i])

CharacterWords == {Split(K_sp_character)[1], Append(Split(K_sp_character)[1], "s")}

\* the N of the first `phrase N` in words (of the first `phrase N
\* characters` when counted), as a set: empty when there is none
FirstNumber(words, phrase, counted) ==
    LET at == {j \in DOMAIN words :
                  /\ PhraseAt(words, j, phrase)
                  /\ j + Len(phrase) <= Len(words)
                  /\ IsNumber(words[j + Len(phrase)])
                  /\ counted => /\ j + Len(phrase) + 1 <= Len(words)
                                /\ words[j + Len(phrase) + 1] \in CharacterWords}
    IN  IF at = {} THEN {} ELSE {ToInt(words[Min(at) + Len(phrase)])}

\* the bound C7 names: the inclusive phrase's if there is one, else the
\* exclusive phrase's moved by one
ExpectedMin(words) ==
    IF FirstNumber(words, Split(K_at_least_sp), TRUE) # {}
    THEN FirstNumber(words, Split(K_at_least_sp), TRUE)
    ELSE {n + 1 : n \in FirstNumber(words, Split(K_longer_than_sp), FALSE)}
ExpectedMax(words) ==
    IF FirstNumber(words, Split(K_at_most_sp), TRUE) # {}
    THEN FirstNumber(words, Split(K_at_most_sp), TRUE)
    ELSE {n - 1 : n \in FirstNumber(words, Split(K_shorter_than_sp), FALSE)}

\* the dict has the key with the one value expected, or has not the key
FieldIs(filters, key, expected) ==
    IF expected = {} THEN key \notin DOMAIN filters
    ELSE key \in DOMAIN filters /\ filters[key] \in expected

C7_Bounds(out, emin, emax) ==
    /\ (Raised(out) /\ out.raised = MsgConflict)
          <=> (\E a \in emin, b \in emax : a > b)
    /\ ~Raised(out) => /\ FieldIs(out.returned, "min_length", emin)
                       /\ FieldIs(out.returned, "max_length", emax)
    /\ Raised(out) /\ out.raised = MsgNoFilters => emin = {} /\ emax = {}

\* C7: `longer than N` gives min_length N + 1, `shorter than N` gives
\* max_length N - 1, `at least N characters` gives min_length N, `at most N
\* characters` gives max_length N; where an exclusive and an inclusive
\* phrase for one bound both occur the inclusive one's value is returned,
\* whatever their order; and a min_length above the max_length raises the
\* conflict error.
C7_LengthBounds ==
    result.ran /\ Strip(arg) # <<>>
    => \A words \in {WordsOf(arg)} :
          C7_Bounds(result.out, ExpectedMin(words), ExpectedMax(words))

\* C7 witness: 'at least 10 characters longer than 2' gave min_length 10
C7_Witness ==
    /\ result.ran
    /\ arg = Join(<<9, 5>>)
    /\ ~Raised(result.out)
    /\ result.out.returned["min_length"] = 10

IsLetterWord(w) == Len(w) = 1 /\ IsLowerLetter(w[1])

\* the letter of the first `head [the letter] c` in words, for the heads of
\* one containment pattern; c a one-letter word
FirstLetter(words, heads) ==
    LET the_letter == Split(K_sp_the_letter)
        LetterAt(j) == IF j <= Len(words) /\ IsLetterWord(words[j])
                       THEN {words[j]} ELSE {}
        After(j) == IF LetterAt(j) # {} THEN LetterAt(j)
                    ELSE IF PhraseAt(words, j, the_letter)
                    THEN LetterAt(j + Len(the_letter)) ELSE {}
        Here(j) == UNION {After(j + Len(h)) : h \in {x \in heads : PhraseAt(words, j, x)}}
        at == {j \in DOMAIN words : Here(j) # {}}
    IN  IF at = {} THEN {} ELSE Here(Min(at))

ContainHeads == {<<K_contain>>, <<K_contain \o K_ing>>, <<K_contain \o K_s>>}

\* the contains_character C8 names
ExpectedLetter(words) ==
    IF \E j \in DOMAIN words : PhraseAt(words, j, Split(K_first_vowel))
    THEN {<<"a">>}
    ELSE IF FirstLetter(words, ContainHeads) # {}
    THEN FirstLetter(words, ContainHeads)
    ELSE IF FirstLetter(words, {<<K_with>>}) # {}
    THEN FirstLetter(words, {<<K_with>>})
    ELSE FirstLetter(words, {Split(K_that_have)})

\* C8: contains_character is set to the letter c only when a containment
\* phrase (contain/containing/contains, with, that have, each optionally
\* followed by `the letter`) is followed by the one-letter word c, by the
\* first of the three patterns that matches; `first vowel` makes it 'a'
\* whatever else matched; a word-count phrase such as `with two words` or a
\* length phrase alone does not set it.
C8_ContainsCharacter ==
    result.ran /\ Strip(arg) # <<>> /\ ~Raised(result.out)
    => \A words \in {WordsOf(arg)} :
          FieldIs(result.out.returned, "contains_character", ExpectedLetter(words))

\* ------------------------------------------------ claims on the analyzer

RECURSIVE SumOver(_, _)
SumOver(f, keys) ==
    IF keys = {} THEN 0
    ELSE LET k == CHOOSE x \in keys : TRUE IN f[k] + SumOver(f, keys \ {k})

\* the first characters of the maximal runs of non-whitespace
RunStarts(s) ==
    {i \in DOMAIN s : ~IsSpace(s[i]) /\ (i = 1 \/ IsSpace(s[i - 1]))}

C10_Reference(s, a) ==
    /\ a.length = Cardinality(DOMAIN s)
    /\ SumOver(a.character_frequency_map, DOMAIN a.character_frequency_map)
          = a.length
    /\ Cardinality(DOMAIN a.character_frequency_map) = a.unique_characters
    /\ a.is_palindrome
          <=> \A i \in DOMAIN s : LowerChar(s[i]) = LowerChar(s[Len(s) + 1 - i])
    /\ a.word_count = Cardinality(RunStarts(s))
    /\ s = <<>> => /\ a.length = 0
                   /\ a.is_palindrome
                   /\ a.unique_characters = 0
                   /\ a.word_count = 0
                   /\ DOMAIN a.character_frequency_map = {}

\* C10: for every string over upper- and lower-case letters and whitespace
\* analyze_string returns, and: length is the number of characters; the
\* frequencies sum to length and their keys number unique_characters;
\* is_palindrome holds iff the lower-cased string reads the same backwards,
\* whitespace kept; word_count is the number of maximal non-whitespace
\* runs; the empty string gives 0, true, 0, 0 and the empty map.
C10_AnalyzeMatchesReference ==
    result.ran => C10_Reference(arg, result.out)

\* C10 witness: 'A a' was analyzed: a palindrome once lower-cased, with its
\* blank, of two words
C10_Witness ==
    /\ result.ran
    /\ arg = <<"A", " ", "a">>
    /\ result.out.is_palindrome
    /\ result.out.word_count = 2

\* ------------------------- claims on the parser and the explicit filters

\* the parsed filters as a client writes them in the query string of
\* GET /strings: str() of an integer, 'true' or 'false', the character
AsParams(filters) ==
    [k \in DOMAIN filters |->
        IF k = "is_palindrome" THEN (IF filters[k] THEN K_true ELSE K_false)
        ELSE IF k = "contains_character" THEN filters[k]
        ELSE IntToStr(filters[k])]

WellTyped(filters) ==
    /\ \A k \in DOMAIN filters \cap {"min_length", "max_length", "word_count"} :
          filters[k] \in Nat
    /\ "contains_character" \in DOMAIN filters
          => Len(filters["contains_character"]) = 1

C11_SameAsExplicit(filters, body, rows, now) ==
    /\ WellTyped(filters)
    /\ \A got \in {StringCreateListView_get(AsParams(filters), rows, now)} :
          /\ got.status = 200
          /\ got.body.data = body.data
          /\ got.body.count = body.count

\* C11: the filters of every query the natural-language endpoint answers
\* with 200 are well typed (min_length, max_length and word_count
\* non-negative integers, contains_character one character), GET /strings
\* accepts them as explicit parameters, and on the same store it returns
\* the same list of records.
C11_ParsedFiltersAreExplicitFilters ==
    [][ServedNaturalLanguage
        => \A r \in {resp'} :
              r.status = 200
              => C11_SameAsExplicit(r.body.interpreted_query.parsed_filters,
                                    r.body, store, clock)]_vars

====
